---- MODULE Spec2Model ----
(***************************************************************************)
(* A model of the GoDaddy provider for libdns: the record codec            *)
(* (convertToLibdnsRecord, convertFromLibdnsRecord, getRecordName) and the *)
(* zone operations (GetRecords, AppendRecords, SetRecords, DeleteRecords)  *)
(* running against a remote zone.                                          *)
(*                                                                         *)
(* Go strings are modelled as sequences of one-character strings, so that  *)
(* suffix trimming, splitting, parsing and formatting are computed the way *)
(* the code computes them.  A time.Duration d is the pair [s, ns] with     *)
(* d = s * 10^9 + ns nanoseconds, |ns| < 10^9 and ns carrying the sign of  *)
(* d, so that d / time.Second (truncation towards zero) is s.              *)
(***************************************************************************)
EXTENDS Integers, Sequences, FiniteSets, TLC

(***************************************************************************)
(* Characters and strings                                                  *)
(***************************************************************************)
Lower == <<"a","b","c","d","e","f","g","h","i","j","k","l","m",
           "n","o","p","q","r","s","t","u","v","w","x","y","z">>
Upper == <<"A","B","C","D","E","F","G","H","I","J","K","L","M",
           "N","O","P","Q","R","S","T","U","V","W","X","Y","Z">>
Digits == <<"0","1","2","3","4","5","6","7","8","9">>
HexLower == <<"0","1","2","3","4","5","6","7","8","9","a","b","c","d","e","f">>
HexUpper == <<"0","1","2","3","4","5","6","7","8","9","A","B","C","D","E","F">>

\* The index of c in the sequence tbl, 0 when it does not occur.
IndexIn(tbl, c) ==
    IF \E i \in 1..Len(tbl) : tbl[i] = c
    THEN CHOOSE i \in 1..Len(tbl) : tbl[i] = c
    ELSE 0

IsDigit(c) == IndexIn(Digits, c) # 0
DigitVal(c) == IndexIn(Digits, c) - 1
IsHex(c) == IndexIn(HexLower, c) # 0 \/ IndexIn(HexUpper, c) # 0
HexVal(c) == IF IndexIn(HexLower, c) # 0 THEN IndexIn(HexLower, c) - 1
             ELSE IndexIn(HexUpper, c) - 1

\* strings.ToUpper on ASCII text
ToUpperChar(c) == IF IndexIn(Lower, c) # 0 THEN Upper[IndexIn(Lower, c)] ELSE c
ToUpper(s) == [i \in 1..Len(s) |-> ToUpperChar(s[i])]

\* s[from:] with a 0-based offset, as a Go slice expression
Drop(s, n) == SubSeq(s, n + 1, Len(s))
Take(s, n) == SubSeq(s, 1, n)

HasSuffix(s, suffix) ==
    /\ Len(suffix) <= Len(s)
    /\ Drop(s, Len(s) - Len(suffix)) = suffix

TrimSuffix(s, suffix) ==
    IF HasSuffix(s, suffix) THEN Take(s, Len(s) - Len(suffix)) ELSE s

\* The 1-based position of the first occurrence of c in s, 0 if none.
IndexByte(s, c) ==
    IF \E i \in 1..Len(s) : s[i] = c
    THEN CHOOSE i \in 1..Len(s) : s[i] = c /\ \A j \in 1..(i - 1) : s[j] # c
    ELSE 0

\* strings.SplitN(s, " ", 2)
SplitN2(s) ==
    LET i == IndexByte(s, " ")
    IN  IF i = 0 THEN <<s>> ELSE <<Take(s, i - 1), Drop(s, i)>>

\* Decimal formatting of a natural number (fmt "%d", strconv.Itoa)
RECURSIVE FormatUint(_)
FormatUint(n) ==
    IF n < 10 THEN <<Digits[n + 1]>>
    ELSE FormatUint(n \div 10) \o <<Digits[(n % 10) + 1]>>

\* strconv.ParseUint(s, 10, 16): [ok, val]; fails on the empty string, on
\* any non-digit (signs and underscores included) and on values above 65535.
MaxUint16 == 65535
RECURSIVE ParseUintAcc(_, _)
ParseUintAcc(s, acc) ==
    IF s = <<>> THEN [ok |-> TRUE, val |-> acc]
    ELSE IF ~IsDigit(Head(s)) THEN [ok |-> FALSE, val |-> 0]
    ELSE LET v == acc * 10 + DigitVal(Head(s))
         IN  IF v > MaxUint16 THEN [ok |-> FALSE, val |-> MaxUint16]
             ELSE ParseUintAcc(Tail(s), v)

ParseUint16(s) ==
    IF s = <<>> THEN [ok |-> FALSE, val |-> 0] ELSE ParseUintAcc(s, 0)

(***************************************************************************)
(* net/netip: an address is [fam, w, zone]; fam = 4 with w the four bytes, *)
(* fam = 6 with w the eight 16-bit groups, fam = 0 the zero Addr.          *)
(***************************************************************************)
NoAddr == [fam |-> 0, w |-> <<>>, zone |-> <<>>]
ParseFail == [ok |-> FALSE, ip |-> NoAddr]

\* netip.parseIPv4Fields: i is the 1-based scan position in s.
RECURSIVE ParseIPv4Fields(_, _, _, _, _)
ParseIPv4Fields(s, i, val, digLen, fields) ==
    IF i > Len(s)
    THEN IF Len(fields) < 3 THEN [ok |-> FALSE, w |-> <<>>]
         ELSE [ok |-> TRUE, w |-> Append(fields, val)]
    ELSE IF IsDigit(s[i])
    THEN IF digLen = 1 /\ val = 0 THEN [ok |-> FALSE, w |-> <<>>]
         ELSE LET v == val * 10 + DigitVal(s[i])
              IN  IF v > 255 THEN [ok |-> FALSE, w |-> <<>>]
                  ELSE ParseIPv4Fields(s, i + 1, v, digLen + 1, fields)
    ELSE IF s[i] = "."
    THEN IF i = 1 \/ i = Len(s) \/ s[i - 1] = "." THEN [ok |-> FALSE, w |-> <<>>]
         ELSE IF Len(fields) = 3 THEN [ok |-> FALSE, w |-> <<>>]
         ELSE ParseIPv4Fields(s, i + 1, 0, 0, Append(fields, val))
    ELSE [ok |-> FALSE, w |-> <<>>]

parseIPv4(s) ==
    LET r == ParseIPv4Fields(s, 1, 0, 0, <<>>)
    IN  IF r.ok THEN [ok |-> TRUE, ip |-> [fam |-> 4, w |-> r.w, zone |-> <<>>]]
        ELSE ParseFail

\* The number of leading hexadecimal digits of s.
RECURSIVE HexRun(_)
HexRun(s) == IF s # <<>> /\ IsHex(Head(s)) THEN 1 + HexRun(Tail(s)) ELSE 0

RECURSIVE HexAcc(_, _)
HexAcc(s, acc) == IF s = <<>> THEN acc ELSE HexAcc(Tail(s), acc * 16 + HexVal(Head(s)))

Zeros(n) == [i \in 1..n |-> 0]

\* The end of parseIPv6: the whole string was used, the ellipsis expands.
ParseIPv6Finish(s, ell, g, zone) ==
    IF s # <<>> THEN ParseFail
    ELSE IF Len(g) < 8
    THEN IF ell < 0 THEN ParseFail
         ELSE [ok |-> TRUE,
               ip |-> [fam |-> 6,
                       w |-> Take(g, ell) \o Zeros(8 - Len(g)) \o Drop(g, ell),
                       zone |-> zone]]
    ELSE IF ell >= 0 THEN ParseFail
    ELSE [ok |-> TRUE, ip |-> [fam |-> 6, w |-> g, zone |-> zone]]

\* The loop of parseIPv6, counting 16-bit groups: g holds the groups parsed
\* so far, ell the group index of the ellipsis (-1 when there is none).
RECURSIVE ParseIPv6Loop(_, _, _, _)
ParseIPv6Loop(s, ell, g, zone) ==
    IF Len(g) >= 8 THEN ParseIPv6Finish(s, ell, g, zone)
    ELSE
    LET off == HexRun(s)
    IN  IF off > 4 \/ off = 0 THEN ParseFail
        ELSE IF off < Len(s) /\ s[off + 1] = "."
        THEN IF (ell < 0 /\ Len(g) # 6) \/ Len(g) > 6 THEN ParseFail
             ELSE LET r == ParseIPv4Fields(s, 1, 0, 0, <<>>)
                  IN  IF ~r.ok THEN ParseFail
                      ELSE ParseIPv6Finish(<<>>, ell,
                               g \o <<r.w[1] * 256 + r.w[2], r.w[3] * 256 + r.w[4]>>,
                               zone)
        ELSE
        LET g2 == Append(g, HexAcc(Take(s, off), 0))
            s2 == Drop(s, off)
        IN  IF s2 = <<>> THEN ParseIPv6Finish(s2, ell, g2, zone)
            ELSE IF s2[1] # ":" \/ Len(s2) = 1 THEN ParseFail
            ELSE LET s3 == Tail(s2)
                 IN  IF s3[1] = ":"
                     THEN IF ell >= 0 THEN ParseFail
                          ELSE IF Tail(s3) = <<>>
                               THEN ParseIPv6Finish(<<>>, Len(g2), g2, zone)
                               ELSE ParseIPv6Loop(Tail(s3), Len(g2), g2, zone)
                     ELSE ParseIPv6Loop(s3, ell, g2, zone)

parseIPv6(in) ==
    LET p == IndexByte(in, "%")
        s == IF p # 0 THEN Take(in, p - 1) ELSE in
        zone == IF p # 0 THEN Drop(in, p) ELSE <<>>
    IN  IF p # 0 /\ zone = <<>> THEN ParseFail
        ELSE IF Len(s) >= 2 /\ s[1] = ":" /\ s[2] = ":"
        THEN IF Len(s) = 2
             THEN [ok |-> TRUE, ip |-> [fam |-> 6, w |-> Zeros(8), zone |-> zone]]
             ELSE ParseIPv6Loop(Drop(s, 2), 0, <<>>, zone)
        ELSE ParseIPv6Loop(s, -1, <<>>, zone)

\* netip.ParseAddr: the first of '.', ':' and '%' in s picks the parser.
RECURSIVE ParseAddrScan(_, _)
ParseAddrScan(s, i) ==
    IF i > Len(s) THEN ParseFail
    ELSE IF s[i] = "." THEN parseIPv4(s)
    ELSE IF s[i] = ":" THEN parseIPv6(s)
    ELSE IF s[i] = "%" THEN ParseFail
    ELSE ParseAddrScan(s, i + 1)

ParseAddr(s) == ParseAddrScan(s, 1)

Is4(ip) == ip.fam = 4
Is6(ip) == ip.fam = 6
Is4In6(ip) == Is6(ip) /\ Take(ip.w, 5) = Zeros(5) /\ ip.w[6] = 65535

\* Lower-case hexadecimal without leading zeros (netip appendHex)
RECURSIVE FormatHex(_)
FormatHex(n) ==
    IF n < 16 THEN <<HexLower[n + 1]>>
    ELSE FormatHex(n \div 16) \o <<HexLower[(n % 16) + 1]>>

RECURSIVE JoinWith(_, _)
JoinWith(parts, sep) ==
    IF parts = <<>> THEN <<>>
    ELSE IF Len(parts) = 1 THEN parts[1]
    ELSE parts[1] \o sep \o JoinWith(Tail(parts), sep)

string4(b) == JoinWith([i \in 1..Len(b) |-> FormatUint(b[i])], <<".">>)

\* The length of the run of zero groups of w that starts at the 0-based index i.
RECURSIVE ZeroRun(_, _)
ZeroRun(w, i) == IF i < Len(w) /\ w[i + 1] = 0 THEN 1 + ZeroRun(w, i + 1) ELSE 0

\* netip Addr.string6 without the zone: the first longest run of two or
\* more zero groups is written "::".
string6(w) ==
    LET Best == {i \in 0..7 : /\ ZeroRun(w, i) >= 2
                              /\ \A j \in 0..7 : ZeroRun(w, j) <= ZeroRun(w, i)}
        hex == [i \in 1..8 |-> FormatHex(w[i])]
    IN  IF Best = {} THEN JoinWith(hex, <<":">>)
        ELSE LET zs == CHOOSE i \in Best : \A j \in Best : i <= j
                 ze == zs + ZeroRun(w, zs)
             IN  JoinWith(Take(hex, zs), <<":">>) \o <<":", ":">>
                     \o JoinWith(Drop(hex, ze), <<":">>)

WithZoneSuffix(ip) == IF ip.zone = <<>> THEN <<>> ELSE <<"%">> \o ip.zone

\* netip Addr.String
AddrString(ip) ==
    IF ip.fam = 0 THEN <<"i","n","v","a","l","i","d"," ","I","P">>
    ELSE IF Is4(ip) THEN string4(ip.w)
    ELSE IF Is4In6(ip)
    THEN <<":", ":", "f", "f", "f", "f", ":">>
            \o string4(<<ip.w[7] \div 256, ip.w[7] % 256, ip.w[8] \div 256, ip.w[8] % 256>>)
            \o WithZoneSuffix(ip)
    ELSE string6(ip.w) \o WithZoneSuffix(ip)

(***************************************************************************)
(* time.Duration and the libdns record variants                            *)
(***************************************************************************)
\* time.Duration(n) * time.Second
Seconds(n) == [s |-> n, ns |-> 0]

\* d / time.Second: Go's integer division truncates towards zero, which
\* leaves the seconds part of the pair.
WholeSeconds(d) == d.s

\* libdns Record.RR(): the projection of each variant to {Name, TTL, Type, Data}.
RR(record) ==
    CASE record.kind = "Address" ->
            [Name |-> record.Name, TTL |-> record.TTL,
             Type |-> IF Is6(record.IP) THEN <<"A","A","A","A">> ELSE <<"A">>,
             Data |-> AddrString(record.IP)]
      [] record.kind = "TXT" ->
            [Name |-> record.Name, TTL |-> record.TTL,
             Type |-> <<"T","X","T">>, Data |-> record.Text]
      [] record.kind = "CNAME" ->
            [Name |-> record.Name, TTL |-> record.TTL,
             Type |-> <<"C","N","A","M","E">>, Data |-> record.Target]
      [] record.kind = "MX" ->
            [Name |-> record.Name, TTL |-> record.TTL,
             Type |-> <<"M","X">>,
             Data |-> FormatUint(record.Preference) \o <<" ">> \o record.Target]
      [] record.kind = "NS" ->
            [Name |-> record.Name, TTL |-> record.TTL,
             Type |-> <<"N","S">>, Data |-> record.Target]
      [] record.kind = "RR" ->
            [Name |-> record.Name, TTL |-> record.TTL,
             Type |-> record.Type, Data |-> record.Data]

(***************************************************************************)
(* The provider's helpers and codec                                        *)
(***************************************************************************)
getDomain(zone) == TrimSuffix(zone, <<".">>)

\* A variant that forgets the trailing dot.
getRecordName_keepDot(zone, name) ==
    IF name = <<"@">> THEN <<"@">> ELSE TrimSuffix(name, zone)

getRecordName(zone, name) ==
    IF name = <<"@">> THEN <<"@">>
    ELSE TrimSuffix(TrimSuffix(name, zone), <<".">>)

\* A variant that normalises the type of the fallback record.
FallbackRR_upper(gr) ==
    [kind |-> "RR", Name |-> gr.Name, TTL |-> Seconds(gr.TTL),
     Type |-> ToUpper(gr.Type), Data |-> gr.Data]

\* The libdns.RR fallback of convertToLibdnsRecord
FallbackRR(gr) ==
    [kind |-> "RR", Name |-> gr.Name, TTL |-> Seconds(gr.TTL),
     Type |-> gr.Type, Data |-> gr.Data]

\* A variant that drops the TTL of typed records.
convertToLibdnsRecord_noTTL(gr) ==
    LET type == ToUpper(gr.Type)
        r == ParseAddr(gr.Data)
    IN  IF (type = <<"A">> \/ type = <<"A","A","A","A">>) /\ r.ok
        THEN [kind |-> "Address", Name |-> gr.Name, TTL |-> Seconds(0), IP |-> r.ip]
        ELSE FallbackRR(gr)

convertToLibdnsRecord(gr) ==
    LET ttl == Seconds(gr.TTL)
        type == ToUpper(gr.Type)
    IN  IF type = <<"A">> \/ type = <<"A","A","A","A">>
        THEN LET r == ParseAddr(gr.Data)
             IN  IF ~r.ok THEN FallbackRR(gr)
                 ELSE [kind |-> "Address", Name |-> gr.Name, TTL |-> ttl, IP |-> r.ip]
        ELSE IF type = <<"T","X","T">>
        THEN [kind |-> "TXT", Name |-> gr.Name, TTL |-> ttl, Text |-> gr.Data]
        ELSE IF type = <<"C","N","A","M","E">>
        THEN [kind |-> "CNAME", Name |-> gr.Name, TTL |-> ttl, Target |-> gr.Data]
        ELSE IF type = <<"M","X">>
        THEN LET parts == SplitN2(gr.Data)
             IN  IF Len(parts) = 2
                 THEN LET pref == ParseUint16(parts[1])
                      IN  IF pref.ok
                          THEN [kind |-> "MX", Name |-> gr.Name, TTL |-> ttl,
                                Preference |-> pref.val, Target |-> parts[2]]
                          ELSE FallbackRR(gr)
                 ELSE FallbackRR(gr)
        ELSE IF type = <<"N","S">>
        THEN [kind |-> "NS", Name |-> gr.Name, TTL |-> ttl, Target |-> gr.Data]
        ELSE FallbackRR(gr)

MinTTL == 600

\* A variant without the TTL floor.
convertFromLibdnsRecord_noFloor(record, zone) ==
    LET rr == RR(record)
    IN  [Type |-> rr.Type, Name |-> getRecordName(zone, rr.Name),
         Data |-> rr.Data, TTL |-> WholeSeconds(rr.TTL)]

convertFromLibdnsRecord(record, zone) ==
    LET rr == RR(record)
        ttlSeconds == IF WholeSeconds(rr.TTL) < MinTTL THEN MinTTL
                      ELSE WholeSeconds(rr.TTL)
    IN  [Type |-> rr.Type, Name |-> getRecordName(zone, rr.Name),
         Data |-> rr.Data, TTL |-> ttlSeconds]

(***************************************************************************)
(* The remote zone and the provider's operations                           *)
(***************************************************************************)
VARIABLES
    remote,          \* the vendor's record list of the zone, in listing order
    pc,              \* "idle", "appending", "deleting" or "done"
    op,              \* the operation in progress or just returned
    records,         \* the operation's input list
    idx,             \* 1-based index of the next record the loop handles
    appendedRecords, \* AppendRecords' accumulator
    deletedRecords,  \* DeleteRecords' matched remote records
    ret,             \* what the operation returned: [records, err]
    calls,           \* the HTTP calls the operation has issued, in order
    remote0,         \* the zone contents when the operation started
    disturbed,       \* another actor changed the zone since the operation started
    last,            \* summary of the operation that returned before this one
    nops,            \* operations started
    nexternal,       \* changes made by other actors
    cstart,          \* codec harness: which function the trace exercises
    czone,           \* codec harness: the zone argument
    ctrace           \* codec harness: the input followed by each result

zvars == <<remote, pc, op, records, idx, appendedRecords, deletedRecords, ret,
           calls, remote0, disturbed, last, nops, nexternal>>
cvars == <<cstart, czone, ctrace>>
vars == <<remote, pc, op, records, idx, appendedRecords, deletedRecords, ret,
          calls, remote0, disturbed, last, nops, nexternal, cstart, czone, ctrace>>

\* Bounds of the exploration
MaxZone == 2
MaxBatch == 2
MaxOps == 2
MaxExternal == 1

\* The zone every operation of the zone model is called with: "e."
ZoneName == <<"e", ".">>

TypeA == <<"A">>
TypeTXT == <<"T","X","T">>
IP1 == <<"1",".","2",".","3",".","4">>
IP2 == <<"1",".","2",".","3",".","5">>

\* Records the vendor may hold at the start.  Two A records at one name
\* are legal DNS; names are zone-relative and types upper-case.
VendorRecords ==
    { [Type |-> TypeA, Name |-> <<"w">>, Data |-> IP1, TTL |-> 600],
      [Type |-> TypeA, Name |-> <<"w">>, Data |-> IP2, TTL |-> 3600],
      [Type |-> TypeTXT, Name |-> <<"@">>, Data |-> <<"t">>, TTL |-> 300] }

\* Records a caller may pass: absolute and relative names, TTLs below, at
\* and above the floor, a negative fractional one, two records with one
\* (type, name), and a record whose name a vendor record has under another type.
CallerRecords ==
    { [kind |-> "Address", Name |-> <<"w",".","e",".">>, TTL |-> Seconds(0),
       IP |-> [fam |-> 4, w |-> <<1,2,3,4>>, zone |-> <<>>]],
      [kind |-> "Address", Name |-> <<"w">>, TTL |-> Seconds(900),
       IP |-> [fam |-> 4, w |-> <<1,2,3,5>>, zone |-> <<>>]],
      [kind |-> "TXT", Name |-> <<"@">>, TTL |-> Seconds(300),
       Text |-> <<"u">>],
      [kind |-> "RR", Name |-> <<"w",".">>, TTL |-> [s |-> -1, ns |-> -500000000],
       Type |-> <<"M","X">>, Data |-> <<"1"," ","m">>] }

\* The sequences over S of length at most n
SeqsUpTo(S, n) == UNION {[1..k -> S] : k \in 0..n}

\* Zone listings never hold the same record twice.
Injective(q) == \A i, j \in 1..Len(q) : q[i] = q[j] => i = j

NoResult == [records |-> <<>>, err |-> FALSE]
NoLast == [called |-> FALSE, ret |-> NoResult, clean |-> FALSE, matched |-> 0]

----
\* The vendor's API (GoDaddy Domains API v1), addressed by {type, name}
SameKey(gr, type, name) == gr.Type = type /\ gr.Name = name

VendorHas(z, type, name) == \E i \in 1..Len(z) : SameKey(z[i], type, name)

Without(z, type, name) ==
    LET Keep(gr) == ~SameKey(gr, type, name) IN SelectSeq(z, Keep)

\* PUT /v1/domains/{domain}/records/{type}/{name}: create-or-replace
VendorPut(z, type, name, body) == Without(z, type, name) \o body

\* DELETE /v1/domains/{domain}/records/{type}/{name}
VendorDelete(z, type, name) == Without(z, type, name)

\* What a call can come to: the vendor handles it and answers, or it fails on
\* the way (client.Do returns an error, or a non-success status comes back
\* without the vendor having acted); status 0 stands for both failures.
Outcomes == {"answered", "failed"}

StatusOf(outcome, answered) == IF outcome = "answered" THEN answered ELSE 0

Call(method, type, name, body, status) ==
    [method |-> method, Type |-> type, Name |-> name, body |-> body,
     status |-> status]

----
\* GetRecords: one GET of all records, each decoded by convertToLibdnsRecord.
GetRecords(z, outcome) ==
    IF outcome = "answered"
    THEN [records |-> [i \in 1..Len(z) |-> convertToLibdnsRecord(z[i])], err |-> FALSE]
    ELSE [records |-> <<>>, err |-> TRUE]

\* A variant that matches on the relative name alone.
Matches_nameOnly(current, record) ==
    getRecordName(ZoneName, RR(current).Name) = getRecordName(ZoneName, RR(record).Name)

\* DeleteRecords' matching test: same RR type and same relative name.
Matches(current, record) ==
    /\ RR(current).Type = RR(record).Type
    /\ getRecordName(ZoneName, RR(current).Name) = getRecordName(ZoneName, RR(record).Name)

\* DeleteRecords' first loop: for each requested record, in order, the first
\* current record that matches it (none when nothing matches).
RECURSIVE FindExisting(_, _)
FindExisting(currentRecords, rs) ==
    IF rs = <<>> THEN <<>>
    ELSE LET hits == {i \in 1..Len(currentRecords) : Matches(currentRecords[i], Head(rs))}
             found == IF hits = {} THEN <<>>
                      ELSE <<currentRecords[CHOOSE i \in hits : \A j \in hits : i <= j]>>
         IN  found \o FindExisting(currentRecords, Tail(rs))

\* The number of requests whose (type, relative name) some record of z has.
RequestKey(record) == <<RR(record).Type, getRecordName(ZoneName, RR(record).Name)>>
MatchedRequests(z, rs) ==
    Cardinality({i \in 1..Len(rs) :
                    \E j \in 1..Len(z) : <<z[j].Type, z[j].Name>> = RequestKey(rs[i])})

\* What is remembered of the operation that has just returned.
Summary ==
    IF pc = "done"
    THEN [called |-> TRUE, ret |-> ret,
          clean |-> ~disturbed /\ \A i \in 1..Len(calls) : calls[i].status # 0,
          matched |-> MatchedRequests(remote0, records)]
    ELSE NoLast

\* An operation is called.  The provider keeps nothing between calls, so a
\* caller either makes its first call or, once that has returned, repeats it
\* with the same list (a retry).
Begin(name, rs) ==
    /\ \/ pc = "idle"
       \/ pc = "done" /\ name = op /\ rs = records
    /\ nops < MaxOps
    /\ nops' = nops + 1
    /\ op' = name
    /\ records' = rs
    /\ idx' = 1
    /\ appendedRecords' = <<>>
    /\ remote0' = remote
    /\ disturbed' = FALSE
    /\ last' = Summary

\* AppendRecords is entered with an input list.
AppendRecords(rs) ==
    /\ Begin("AppendRecords", rs)
    /\ pc' = "appending"
    /\ calls' = <<>>
    /\ deletedRecords' = <<>>
    /\ ret' = NoResult
    /\ UNCHANGED <<remote, nexternal, cvars>>

\* SetRecords delegates to AppendRecords.
SetRecords(rs) ==
    /\ Begin("SetRecords", rs)
    /\ pc' = "appending"
    /\ calls' = <<>>
    /\ deletedRecords' = <<>>
    /\ ret' = NoResult
    /\ UNCHANGED <<remote, nexternal, cvars>>

\* A variant that skips a record whose call failed and carries on.
AppendRecordsCall_continue(outcome) ==
    /\ pc = "appending"
    /\ idx <= Len(records)
    /\ LET record == records[idx]
           gr == convertFromLibdnsRecord(record, ZoneName)
           status == StatusOf(outcome, 200)
       IN  /\ calls' = Append(calls, Call("PUT", gr.Type, gr.Name, <<gr>>, status))
           /\ idx' = idx + 1
           /\ IF status = 200
              THEN /\ remote' = VendorPut(remote, gr.Type, gr.Name, <<gr>>)
                   /\ appendedRecords' = Append(appendedRecords, record)
              ELSE UNCHANGED <<remote, appendedRecords>>
    /\ UNCHANGED <<pc, ret, op, records, deletedRecords, remote0, disturbed, last, nops,
                   nexternal, cvars>>

\* One iteration of AppendRecords' loop: convert, PUT, check the status.
AppendRecordsCall(outcome) ==
    /\ pc = "appending"
    /\ idx <= Len(records)
    /\ LET record == records[idx]
           gr == convertFromLibdnsRecord(record, ZoneName)
           status == StatusOf(outcome, 200)
       IN  /\ calls' = Append(calls, Call("PUT", gr.Type, gr.Name, <<gr>>, status))
           /\ IF status = 200
              THEN /\ remote' = VendorPut(remote, gr.Type, gr.Name, <<gr>>)
                   /\ appendedRecords' = Append(appendedRecords, record)
                   /\ idx' = idx + 1
                   /\ UNCHANGED <<pc, ret>>
              ELSE /\ ret' = [records |-> <<>>, err |-> TRUE]
                   /\ pc' = "done"
                   /\ UNCHANGED <<remote, appendedRecords, idx>>
    /\ UNCHANGED <<op, records, deletedRecords, remote0, disturbed, last, nops,
                   nexternal, cvars>>

\* The loop is over: AppendRecords returns what it appended.
AppendRecordsReturn ==
    /\ pc = "appending"
    /\ idx > Len(records)
    /\ ret' = [records |-> appendedRecords, err |-> FALSE]
    /\ pc' = "done"
    /\ UNCHANGED <<remote, op, records, idx, appendedRecords, deletedRecords, calls,
                   remote0, disturbed, last, nops, nexternal, cvars>>

\* DeleteRecords is entered: it reads the zone and collects the matches.
DeleteRecords(rs, outcome) ==
    /\ Begin("DeleteRecords", rs)
    /\ LET got == GetRecords(remote, outcome)
       IN  /\ calls' = <<Call("GET", <<>>, <<>>, <<>>, StatusOf(outcome, 200))>>
           /\ IF got.err
              THEN /\ pc' = "done"
                   /\ deletedRecords' = <<>>
                   /\ ret' = [records |-> <<>>, err |-> TRUE]
              ELSE /\ pc' = "deleting"
                   /\ deletedRecords' = FindExisting(got.records, rs)
                   /\ ret' = NoResult
    /\ UNCHANGED <<remote, nexternal, cvars>>

\* One iteration of DeleteRecords' second loop: DELETE, check the status.
DeleteRecordsCall(outcome) ==
    /\ pc = "deleting"
    /\ idx <= Len(deletedRecords)
    /\ LET rr == RR(deletedRecords[idx])
           recordName == getRecordName(ZoneName, rr.Name)
           answer == IF VendorHas(remote, rr.Type, recordName) THEN 204 ELSE 404
           status == StatusOf(outcome, answer)
       IN  /\ calls' = Append(calls, Call("DELETE", rr.Type, recordName, <<>>, status))
           /\ IF status = 204
              THEN /\ remote' = VendorDelete(remote, rr.Type, recordName)
                   /\ idx' = idx + 1
                   /\ UNCHANGED <<pc, ret>>
              ELSE /\ ret' = [records |-> <<>>, err |-> TRUE]
                   /\ pc' = "done"
                   /\ UNCHANGED <<remote, idx>>
    /\ UNCHANGED <<op, records, appendedRecords, deletedRecords, remote0, disturbed,
                   last, nops, nexternal, cvars>>

\* The loop is over: DeleteRecords returns the matched records.
DeleteRecordsReturn ==
    /\ pc = "deleting"
    /\ idx > Len(deletedRecords)
    /\ ret' = [records |-> deletedRecords, err |-> FALSE]
    /\ pc' = "done"
    /\ UNCHANGED <<remote, op, records, idx, appendedRecords, deletedRecords, calls,
                   remote0, disturbed, last, nops, nexternal, cvars>>

\* Another actor removes one record from the zone between DeleteRecords' read
\* and its delete calls, the one window in which the provider acts on a read
\* that may be stale; the provider holds no lock.  (At any other time a
\* removal only gives the next call another zone to start from.)
ExternalRemove(i) ==
    /\ pc = "deleting"
    /\ nexternal < MaxExternal
    /\ i \in 1..Len(remote)
    /\ remote' = [j \in 1..(Len(remote) - 1) |-> IF j < i THEN remote[j] ELSE remote[j + 1]]
    /\ disturbed' = TRUE
    /\ nexternal' = nexternal + 1
    /\ UNCHANGED <<pc, op, records, idx, appendedRecords, deletedRecords, ret, calls,
                   remote0, last, nops, cvars>>

CodecIdle ==
    /\ cstart = "none"
    /\ czone = <<>>
    /\ ctrace = <<>>

Init ==
    /\ remote \in {z \in SeqsUpTo(VendorRecords, MaxZone) : Injective(z)}
    /\ pc = "idle"
    /\ op = "none"
    /\ records = <<>>
    /\ idx = 1
    /\ appendedRecords = <<>>
    /\ deletedRecords = <<>>
    /\ ret = NoResult
    /\ calls = <<>>
    /\ remote0 = remote
    /\ disturbed = FALSE
    /\ last = NoLast
    /\ nops = 0
    /\ nexternal = 0
    /\ CodecIdle

Next ==
    \/ \E rs \in SeqsUpTo(CallerRecords, MaxBatch) : AppendRecords(rs)
    \/ \E rs \in SeqsUpTo(CallerRecords, MaxBatch) : SetRecords(rs)
    \/ \E outcome \in Outcomes : AppendRecordsCall(outcome)
    \/ AppendRecordsReturn
    \/ \E rs \in SeqsUpTo(CallerRecords, MaxBatch), outcome \in Outcomes :
           DeleteRecords(rs, outcome)
    \/ \E outcome \in Outcomes : DeleteRecordsCall(outcome)
    \/ DeleteRecordsReturn
    \/ \E i \in 1..MaxZone + MaxBatch : ExternalRemove(i)

Spec == Init /\ [][Next]_vars

(***************************************************************************)
(* The codec on its own: the pure functions applied to drawn inputs.       *)
(* ctrace starts with the input; each step appends the result of applying  *)
(* the next function to the last element.                                  *)
(***************************************************************************)
MaxNameLen == 4

NameAlphabet == {"w", "e", ".", "@"}
Names == SeqsUpTo(NameAlphabet, MaxNameLen)
Zones == { <<"e",".">>, <<"e">>, <<"w",".","e",".">>, <<>> }

CodecTypes ==
    { <<"A">>, <<"A","A","A","A">>, <<"a">>, <<"T","X","T">>, <<"C","N","A","M","E">>,
      <<"M","X">>, <<"m","x">>, <<"N","S">>, <<"S","R","V">>, <<"C","A","A">> }

CodecData ==
    { IP1,
      <<"1",".","2",".","3">>,
      <<"0","1",".","2",".","3",".","4">>,
      <<"2","5","6",".","2",".","3",".","4">>,
      <<":",":","1">>,
      <<"0",":","0",":","0",":","0",":","0",":","0",":","0",":","1">>,
      <<":",":","F","F">>,
      <<"1",":",":","0","2">>,
      <<":",":","f","f","f","f",":","1",".","2",".","3",".","4">>,
      <<":",":","1","%","e">>,
      <<"1",":","2">>,
      <<"1","0"," ","m">>,
      <<"1","0"," "," ","m">>,
      <<"0","1","0"," ","m"," ","n">>,
      <<"6","5","5","3","5"," ","m">>,
      <<"6","5","5","3","6"," ","m">>,
      <<"+","1"," ","m">>,
      <<" ","m">>,
      <<"1","0">>,
      <<"x">>,
      <<>> }

CodecNames == { <<"w">>, <<"@">>, <<"w",".","e",".">>, <<"w",".">>, <<"w","e">> }
CodecTTLs == {-5, 0, 300, 599, 600, 900}
CodecZones == { <<"e",".">>, <<"e">> }

VendorInputs ==
    [Type : CodecTypes, Name : CodecNames, Data : CodecData, TTL : CodecTTLs]

CodecDurations ==
    { Seconds(0), Seconds(300), Seconds(600), Seconds(900), Seconds(-700),
      [s |-> -1, ns |-> -500000000], [s |-> 599, ns |-> 999999999],
      [s |-> 600, ns |-> 500000000] }

Addr4 == [fam |-> 4, w |-> <<1,2,3,4>>, zone |-> <<>>]
Addr6 == [fam |-> 6, w |-> <<0,0,0,0,0,0,0,1>>, zone |-> <<>>]

GenericInputs ==
    UNION { { [kind |-> "Address", Name |-> n, TTL |-> d, IP |-> Addr4],
              [kind |-> "Address", Name |-> n, TTL |-> d, IP |-> Addr6],
              [kind |-> "TXT", Name |-> n, TTL |-> d, Text |-> <<"t">>],
              [kind |-> "CNAME", Name |-> n, TTL |-> d, Target |-> <<"e",".">>],
              [kind |-> "MX", Name |-> n, TTL |-> d, Preference |-> 10, Target |-> <<"m">>],
              [kind |-> "NS", Name |-> n, TTL |-> d, Target |-> <<"m">>],
              [kind |-> "RR", Name |-> n, TTL |-> d, Type |-> <<"S","R","V">>, Data |-> <<"x">>],
              [kind |-> "RR", Name |-> n, TTL |-> d, Type |-> <<"m","x">>, Data |-> <<"x">>],
              [kind |-> "RR", Name |-> n, TTL |-> d, Type |-> <<"T","x","t">>, Data |-> <<"x">>] }
            : n \in CodecNames, d \in CodecDurations }

ZoneIdle ==
    /\ remote = <<>>
    /\ pc = "idle"
    /\ op = "none"
    /\ records = <<>>
    /\ idx = 1
    /\ appendedRecords = <<>>
    /\ deletedRecords = <<>>
    /\ ret = NoResult
    /\ calls = <<>>
    /\ remote0 = <<>>
    /\ disturbed = FALSE
    /\ last = NoLast
    /\ nops = 0
    /\ nexternal = 0

InitCodec ==
    /\ ZoneIdle
    /\ \/ /\ cstart = "name"
          /\ czone \in Zones
          /\ \E n \in Names : ctrace = <<n>>
       \/ /\ cstart = "vendor"
          /\ czone \in CodecZones
          /\ \E gr \in VendorInputs : ctrace = <<gr>>
       \/ /\ cstart = "generic"
          /\ czone \in CodecZones
          /\ \E r \in GenericInputs : ctrace = <<r>>

Latest == ctrace[Len(ctrace)]

\* getRecordName is applied to the drawn zone and name.
ApplyGetRecordName ==
    /\ cstart = "name"
    /\ Len(ctrace) = 1
    /\ ctrace' = Append(ctrace, getRecordName(czone, Latest))
    /\ UNCHANGED <<zvars, cstart, czone>>

\* convertToLibdnsRecord is applied to the vendor record the trace ends with.
ApplyConvertTo ==
    /\ \/ cstart = "vendor" /\ Len(ctrace) \in {1, 3}
       \/ cstart = "generic" /\ Len(ctrace) = 2
    /\ ctrace' = Append(ctrace, convertToLibdnsRecord(Latest))
    /\ UNCHANGED <<zvars, cstart, czone>>

\* convertFromLibdnsRecord is applied to the generic record the trace ends with.
ApplyConvertFrom ==
    /\ \/ cstart = "vendor" /\ Len(ctrace) = 2
       \/ cstart = "generic" /\ Len(ctrace) = 1
    /\ ctrace' = Append(ctrace, convertFromLibdnsRecord(Latest, czone))
    /\ UNCHANGED <<zvars, cstart, czone>>

NextCodec ==
    \/ ApplyGetRecordName
    \/ ApplyConvertTo
    \/ ApplyConvertFrom

SpecCodec == InitCodec /\ [][NextCodec]_vars

(***************************************************************************)
(* Properties of the codec, checked under SpecCodec                        *)
(***************************************************************************)
Max(a, b) == IF a >= b THEN a ELSE b
Range(q) == {q[i] : i \in 1..Len(q)}

\* name = p \o suffix for some p
EndsWith(name, suffix) ==
    \E k \in 0..Len(name) :
        /\ k + Len(suffix) = Len(name)
        /\ \A i \in 1..Len(suffix) : name[k + i] = suffix[i]

\* The part of name before its last Len(suffix) characters
Before(name, suffix) == [i \in 1..(Len(name) - Len(suffix)) |-> name[i]]

\* s with one trailing "." removed, s itself when it has none
WithoutDot(s) == IF EndsWith(s, <<".">>) THEN Before(s, <<".">>) ELSE s

Resolved == cstart = "name" /\ Len(ctrace) = 2

\* C8 as stated: "@" gives "@"; a name ending with the zone gives the name
\* without that zone and then without one trailing "."; a name that does not
\* end with the zone is returned unchanged.
C8_Unchanged ==
    Resolved =>
        LET name == ctrace[1]
            out == ctrace[2]
        IN  /\ name = <<"@">> => out = <<"@">>
            /\ (name # <<"@">> /\ EndsWith(name, czone))
                  => out = WithoutDot(Before(name, czone))
            /\ (name # <<"@">> /\ ~EndsWith(name, czone)) => out = name

\* C8, amended: "@" gives "@"; a name ending with the zone gives the name
\* without that zone and then without one trailing "."; a name that does not
\* end with the zone loses one trailing "." too, and is returned unchanged
\* only when it has none.
C8_NameResolver ==
    Resolved =>
        LET name == ctrace[1]
            out == ctrace[2]
        IN  /\ name = <<"@">> => out = <<"@">>
            /\ (name # <<"@">> /\ EndsWith(name, czone))
                  => out = WithoutDot(Before(name, czone))
            /\ (name # <<"@">> /\ ~EndsWith(name, czone)) => out = WithoutDot(name)
            /\ (name # <<"@">> /\ ~EndsWith(name, czone) /\ ~EndsWith(name, <<".">>))
                  => out = name

\* A name that ends with "." but not with the zone was resolved.
C8_Witness ==
    /\ Resolved
    /\ czone = <<"e", ".">>
    /\ ctrace[1] = <<"w", ".">>
    /\ ctrace[2] = <<"w">>

\* The drawn data strings that are IP literals, by family, and the text
\* netip prints for each.
V4Literals == { IP1 }
V6Literals ==
    { <<":",":","1">>,
      <<"0",":","0",":","0",":","0",":","0",":","0",":","0",":","1">>,
      <<":",":","F","F">>,
      <<"1",":",":","0","2">>,
      <<":",":","f","f","f","f",":","1",".","2",".","3",".","4">>,
      <<":",":","1","%","e">> }
IPLiterals == V4Literals \cup V6Literals

Canonical(data) ==
    IF data = <<"0",":","0",":","0",":","0",":","0",":","0",":","0",":","1">>
    THEN <<":",":","1">>
    ELSE IF data = <<":",":","F","F">> THEN <<":",":","f","f">>
    ELSE IF data = <<"1",":",":","0","2">> THEN <<"1",":",":","2">>
    ELSE data

\* The drawn data strings that split at the first space into a decimal
\* preference below 2^16 and a target.
MXPayloads ==
    { <<"1","0"," ","m">>, <<"1","0"," "," ","m">>, <<"0","1","0"," ","m"," ","n">>,
      <<"6","5","5","3","5"," ","m">> }

IsTypeIn(gr, types) == \E t \in types : ToUpper(gr.Type) = t

\* The vendor records the claim says fall back to the Raw variant
Undecodable(gr) ==
    \/ IsTypeIn(gr, {<<"A">>, <<"A","A","A","A">>}) /\ gr.Data \notin IPLiterals
    \/ IsTypeIn(gr, {<<"M","X">>}) /\ gr.Data \notin MXPayloads
    \/ ~IsTypeIn(gr, {<<"A">>, <<"A","A","A","A">>, <<"T","X","T">>,
                      <<"C","N","A","M","E">>, <<"M","X">>, <<"N","S">>})

Decoded == cstart = "vendor" /\ Len(ctrace) >= 2

\* C9: decode is total and degrades losslessly: every vendor record decodes
\* to a record of one of the six variants with the vendor's name and TTL, and
\* a record whose data does not decode (bad IP literal for A/AAAA, MX payload
\* that does not split in two or whose preference is no uint16) or whose type
\* is SRV or unknown decodes to the Raw variant with the vendor's name, type
\* and data unchanged and the vendor's ttl in seconds.
C9_DecodeTotal ==
    Decoded =>
        LET gr == ctrace[1]
            rec == ctrace[2]
        IN  /\ rec.kind \in {"Address", "TXT", "CNAME", "MX", "NS", "RR"}
            /\ rec.Name = gr.Name
            /\ rec.TTL = [s |-> gr.TTL, ns |-> 0]
            /\ Undecodable(gr) =>
                  rec = [kind |-> "RR", Name |-> gr.Name, TTL |-> [s |-> gr.TTL, ns |-> 0],
                         Type |-> gr.Type, Data |-> gr.Data]

\* A lower-case MX record with a preference out of range fell back to Raw.
C9_Witness ==
    /\ Decoded
    /\ ctrace[1].Type = <<"m","x">>
    /\ ctrace[1].Data = <<"6","5","5","3","6"," ","m">>
    /\ ctrace[2].kind = "RR"
    /\ ctrace[2].Type = <<"m","x">>

Reencoded ==
    /\ cstart = "vendor"
    /\ Len(ctrace) >= 3
    /\ ctrace[1].Type \in {<<"A">>, <<"A","A","A","A">>}
    /\ ctrace[1].Data \in IPLiterals

FamilyType(data) == IF data \in V4Literals THEN <<"A">> ELSE <<"A","A","A","A">>

\* C10 as stated: for a vendor A/AAAA record with a valid IP literal, decode,
\* encode and decode again keeps type, name and data, and the TTL except that
\* values below 600 become 600.
C10_Lossless ==
    Reencoded =>
        /\ ctrace[3].Type = ctrace[1].Type
        /\ ctrace[3].Name = ctrace[1].Name
        /\ ctrace[3].Data = ctrace[1].Data
        /\ ctrace[3].TTL = Max(600, ctrace[1].TTL)
        /\ Len(ctrace) = 4 => ctrace[4] = [ctrace[2] EXCEPT !.TTL = [s |-> ctrace[3].TTL, ns |-> 0]]

\* C10, amended: for a vendor A/AAAA record with a valid IP literal, decode,
\* encode and decode again gives the same address, and the TTL except that
\* values below 600 become 600; the re-encoded record has the type of the
\* literal's family (A for IPv4, AAAA for IPv6), the name made relative to
\* the zone and the data in netip's canonical text, so type, name and data
\* equal the original's exactly when the original already had that form.
C10_RoundTrip ==
    Reencoded =>
        LET gr == ctrace[1]
            out == ctrace[3]
        IN  /\ out.TTL = Max(600, gr.TTL)
            /\ out.Type = FamilyType(gr.Data)
            /\ out.Data = Canonical(gr.Data)
            /\ out.Name = IF gr.Name = <<"@">> THEN gr.Name
                          ELSE IF EndsWith(gr.Name, czone)
                          THEN WithoutDot(Before(gr.Name, czone))
                          ELSE WithoutDot(gr.Name)
            /\ (gr.Type = FamilyType(gr.Data) /\ gr.Data = Canonical(gr.Data)
                  /\ gr.Name \in {<<"w">>, <<"@">>})
                  => /\ out.Type = gr.Type
                     /\ out.Name = gr.Name
                     /\ out.Data = gr.Data
            /\ Len(ctrace) = 4 =>
                  /\ ctrace[4].kind = "Address"
                  /\ ctrace[4].IP = ctrace[2].IP
                  /\ ctrace[4].Name = out.Name
                  /\ ctrace[4].TTL = [s |-> out.TTL, ns |-> 0]

\* An AAAA record in canonical form with a TTL above the floor went through
\* decode, encode and decode unchanged.
C10_Witness ==
    /\ Reencoded
    /\ Len(ctrace) = 4
    /\ ctrace[1].Type = <<"A","A","A","A">>
    /\ ctrace[1].Data = <<":",":","1">>
    /\ ctrace[1].TTL = 900
    /\ ctrace[3] = ctrace[1]
    /\ ctrace[4] = ctrace[2]

(***************************************************************************)
(* Properties of the zone operations, checked under Spec                   *)
(***************************************************************************)
Returned == pc = "done"
Deleting == op = "DeleteRecords" /\ pc \in {"deleting", "done"}
Writing == op \in {"AppendRecords", "SetRecords"} /\ pc \in {"appending", "done"}

\* No call of the operation failed on the way and no other actor interfered.
CleanNow == ~disturbed /\ \A i \in 1..Len(calls) : calls[i].status # 0

VendorKey(gr) == <<gr.Type, gr.Name>>
Requested(key) == \E i \in 1..Len(records) : RequestKey(records[i]) = key
Held(z, key) == \E g \in Range(z) : VendorKey(g) = key

\* The per-record calls of the operation: all but DeleteRecords' read.
BatchCalls == IF op = "DeleteRecords" THEN Tail(calls) ELSE calls
Succeeded(c) == c.status \in {200, 204}

\* The keys of the requests that z has a record for, in request order
RECURSIVE MatchedKeys(_, _)
MatchedKeys(z, rs) ==
    IF rs = <<>> THEN <<>>
    ELSE (IF Held(z, RequestKey(Head(rs))) THEN <<RequestKey(Head(rs))>> ELSE <<>>)
            \o MatchedKeys(z, Tail(rs))

\* The keys the operation is to address, in order
Targets ==
    IF op = "DeleteRecords" THEN MatchedKeys(remote0, records)
    ELSE [i \in 1..Len(records) |-> RequestKey(records[i])]

\* C1 as stated: with no transport failure and no external mutation,
\* DeleteRecords returns no error; a first call returns as many records as
\* requests matched a remote record, and the same call repeated returns none.
C1_DeleteIdempotent ==
    (Returned /\ op = "DeleteRecords" /\ CleanNow) =>
        /\ ~ret.err
        /\ ~last.called => Len(ret.records) = MatchedRequests(remote0, records)
        /\ (last.called /\ last.clean) =>
              /\ ~last.ret.err
              /\ Len(last.ret.records) = last.matched
              /\ Len(ret.records) = 0

\* C2: DeleteRecords removes only remote records whose (type, relative name)
\* some requested record has: every other remote record is still in the zone,
\* every delete call addresses a requested pair that the zone held, the
\* matched list has one entry per request with a remote match, each of them a
\* decoded remote record with a requested pair, and requests without a match
\* do not make the batch fail.
C2_DeleteOnlyMatching ==
    Deleting =>
        /\ ~disturbed =>
              \A g \in Range(remote0) : ~Requested(VendorKey(g)) => g \in Range(remote)
        /\ \A k \in 2..Len(calls) :
              /\ calls[k].method = "DELETE"
              /\ Requested(<<calls[k].Type, calls[k].Name>>)
              /\ Held(remote0, <<calls[k].Type, calls[k].Name>>)
        /\ calls[1].status = 200 =>
              Len(deletedRecords) = MatchedRequests(remote0, records)
        /\ \A r \in Range(deletedRecords) :
              \E g \in Range(remote0) :
                  r = convertToLibdnsRecord(g) /\ Requested(VendorKey(g))
        /\ (Returned /\ ~ret.err) => ret.records = deletedRecords
        /\ (Returned /\ CleanNow /\ MatchedRequests(remote0, records) = 0) =>
              ~ret.err /\ ret.records = <<>> /\ Len(calls) = 1
        /\ (Returned /\ CleanNow /\ Injective(MatchedKeys(remote0, records))) => ~ret.err

\* A delete of one unmatched and one matched request returned the matched
\* remote record and left the record with another pair in the zone.
C2_Witness ==
    /\ Returned /\ op = "DeleteRecords" /\ CleanNow /\ ~ret.err
    /\ Len(records) = 2
    /\ MatchedRequests(remote0, records) = 1
    /\ Len(ret.records) = 1
    /\ Len(remote0) = 2
    /\ Len(remote) = 1
    /\ remote[1].Type = TypeTXT

\* C3 as stated: when DeleteRecords succeeds, the records it returns are
\* exactly the remote records that left the zone.
C3_ReturnedAreDeleted ==
    (Returned /\ op = "DeleteRecords" /\ ~ret.err /\ ~disturbed) =>
        {convertToLibdnsRecord(g) : g \in Range(remote0) \ Range(remote)}
            = Range(ret.records)

\* C4 as stated: after a successful AppendRecords the zone holds every
\* record it held before and every record of the returned list.
C4_AppendOnlyAdds ==
    (Returned /\ op = "AppendRecords" /\ ~ret.err /\ ~disturbed) =>
        /\ Range(remote0) \subseteq Range(remote)
        /\ \A r \in Range(ret.records) :
              convertFromLibdnsRecord(r, ZoneName) \in Range(remote)

\* The zone after the successful calls of cs have been applied to z in order
RECURSIVE Replay(_, _)
Replay(z, cs) ==
    IF cs = <<>> THEN z
    ELSE LET c == Head(cs)
             z2 == IF c.method = "PUT" /\ c.status = 200
                   THEN VendorPut(z, c.Type, c.Name, c.body)
                   ELSE IF c.method = "DELETE" /\ c.status = 204
                   THEN VendorDelete(z, c.Type, c.Name)
                   ELSE z
         IN  Replay(z2, Tail(cs))

\* C5: batch operations stop on the first error without rollback: the calls
\* are issued in list order, one per record; only the last call issued can
\* have failed, and then the operation has returned an error; the zone holds
\* the effects of every call that succeeded before it.
C5_StopOnFirstError ==
    (Writing \/ Deleting) =>
        /\ Len(BatchCalls) <= Len(Targets)
        /\ \A k \in 1..Len(BatchCalls) :
              <<BatchCalls[k].Type, BatchCalls[k].Name>> = Targets[k]
        /\ \A k \in 1..(Len(BatchCalls) - 1) : Succeeded(BatchCalls[k])
        /\ (\E k \in 1..Len(calls) : ~Succeeded(calls[k])) => (Returned /\ ret.err)
        /\ ~disturbed => remote = Replay(remote0, BatchCalls)

\* The second call of a batch failed: an error was returned and the first
\* call's effect is still on the zone.
C5_Witness ==
    /\ Writing /\ Returned /\ ret.err
    /\ Len(records) = 2
    /\ Len(calls) = 2
    /\ calls[1].status = 200
    /\ calls[2].status = 0
    /\ remote # remote0
    /\ remote = VendorPut(remote0, calls[1].Type, calls[1].Name, calls[1].body)

\* C6 as stated: a batch operation that fails at the Nth record reports the
\* N-1 records processed before the failure along with the error, and on
\* success the complete set.
C6_PartialResult ==
    (Returned /\ (Writing \/ Deleting)) =>
        IF ret.err
        THEN /\ Len(ret.records) = Max(Len(BatchCalls) - 1, 0)
             /\ Writing => ret.records = SubSeq(records, 1, Len(BatchCalls) - 1)
        ELSE Len(ret.records) = Len(Targets)

\* C7: every record body AppendRecords and SetRecords send is the input
\* record encoded with ttl = max(600, whole seconds of the input TTL), so
\* never below 600: 0s, 300s and -1.5s give 600, 900s stays 900.
C7_TTLFloor ==
    Writing =>
        \A k \in 1..Len(calls) :
            LET d == records[k].TTL
                sent == calls[k].body[1]
            IN  /\ calls[k].method = "PUT"
                /\ Len(calls[k].body) = 1
                /\ sent.TTL >= 600
                /\ sent.TTL = Max(600, d.s)
                /\ d \in {[s |-> 0, ns |-> 0], [s |-> 300, ns |-> 0],
                          [s |-> -1, ns |-> -500000000]} => sent.TTL = 600
                /\ d = [s |-> 900, ns |-> 0] => sent.TTL = 900

\* A 300-second and a 900-second record were sent as 600 and 900.
C7_Witness ==
    /\ Writing
    /\ Len(calls) = 2
    /\ records[1].TTL = [s |-> 300, ns |-> 0]
    /\ records[2].TTL = [s |-> 900, ns |-> 0]
    /\ calls[1].body[1].TTL = 600
    /\ calls[2].body[1].TTL = 900

(***************************************************************************)
(* The type's case at the codec boundary, checked under SpecCodec          *)
(***************************************************************************)
\* The vendor records the trace holds as results of convertFromLibdnsRecord
EncodedRecords ==
    IF cstart = "generic" /\ Len(ctrace) >= 2 THEN {ctrace[2]}
    ELSE IF cstart = "vendor" /\ Len(ctrace) >= 3 THEN {ctrace[3]}
    ELSE {}

\* The variant a vendor type selects when its data decodes
VariantOf(type) ==
    IF type \in {<<"A">>, <<"A","A","A","A">>} THEN "Address"
    ELSE IF type = <<"T","X","T">> THEN "TXT"
    ELSE IF type = <<"C","N","A","M","E">> THEN "CNAME"
    ELSE IF type = <<"M","X">> THEN "MX"
    ELSE IF type = <<"N","S">> THEN "NS"
    ELSE "RR"

\* C11 as stated: decode dispatches on the type whatever its case ("mx" and
\* "MX", "a" and "A" select the same variant), and every vendor record that
\* convertFromLibdnsRecord produces has an upper-case type, a Raw record
\* with a lower- or mixed-case type tag included.
C11_TypeNormalised ==
    /\ Decoded =>
          LET gr == ctrace[1]
              rec == ctrace[2]
          IN  ~Undecodable(gr) =>
                  \E t \in {<<"A">>, <<"A","A","A","A">>, <<"T","X","T">>,
                            <<"C","N","A","M","E">>, <<"M","X">>, <<"N","S">>} :
                      /\ \A i \in 1..Len(t) : gr.Type[i] \in {t[i], Lower[IndexIn(Upper, t[i])]}
                      /\ Len(gr.Type) = Len(t)
                      /\ rec.kind = VariantOf(t)
    /\ \A out \in EncodedRecords :
          \A i \in 1..Len(out.Type) : IndexIn(Lower, out.Type[i]) = 0

(***************************************************************************)
(* Concurrent mutation during DeleteRecords, checked under Spec            *)
(***************************************************************************)
\* The step is a delete call of DeleteRecords that the vendor answered.
AnsweredDeleteCall ==
    /\ pc = "deleting"
    /\ Len(calls') = Len(calls) + 1
    /\ calls'[Len(calls')].method = "DELETE"
    /\ calls'[Len(calls')].status # 0

\* The pair the next delete call addresses
NextKey == RequestKey(deletedRecords[idx])

\* The remote record matched for the next delete call has left the zone
\* though no delete call of this operation addressed its pair: another
\* actor removed it after the read.
RemovedByOther ==
    \E g \in Range(remote0) :
        /\ convertToLibdnsRecord(g) = deletedRecords[idx]
        /\ g \notin Range(remote)
        /\ \A k \in 2..Len(calls) : <<calls[k].Type, calls[k].Name>> # VendorKey(g)

\* The call was refused as not found, DeleteRecords returned an error and no
\* deleted set, and the zone is as the earlier delete calls left it.
NotFoundFailure ==
    /\ calls'[Len(calls')].status = 404
    /\ pc' = "done"
    /\ ret' = [records |-> <<>>, err |-> TRUE]
    /\ remote' = remote
    /\ \A k \in 2..Len(calls) :
          calls[k].status = 204 => ~Held(remote', <<calls[k].Type, calls[k].Name>>)

\* C12 as stated: when another actor removes a matched record between the
\* read and the delete call for that record, that call gets a not-found
\* response and DeleteRecords returns an error instead of a deleted set,
\* while the deletes already issued stay applied.
C12_RemovedGivesNotFound ==
    [][(AnsweredDeleteCall /\ RemovedByOther) => NotFoundFailure]_vars

====
